---- MODULE Spec2Model ----
(***************************************************************************)
(* Model of cm-go-service (src/main.go): the request routing built by      *)
(* registerEndpoints, the middleware chain around the services router, and *)
(* the lifecycle of the HTTP server driven by the app action: the main     *)
(* flow (newHTTPServer, go startHTTPServer, waitForSignal, stopHTTPServer) *)
(* interleaved with the background goroutine running startHTTPServer and   *)
(* with the per-request goroutines of net/http.                            *)
(*                                                                         *)
(* Time is discrete.  A timer that has reached its deadline fires before   *)
(* time moves on (Tick is disabled while a deadline is due).               *)
(***************************************************************************)
EXTENDS Integers, Sequences, FiniteSets, TLC

VARIABLES
    mainPC,        \* position of the main flow inside the app action
    gPC,           \* position of the goroutine running startHTTPServer
    notified,      \* signal.Notify(ch, SIGINT, SIGTERM) has been executed
    sigCh,         \* number of signals held by the buffered channel ch (capacity 1)
    portFree,      \* environment: can the configured port be bound
    listening,     \* the server's listener is open and accepting
    inShutdown,    \* http.Server's inShutdown flag, set by Shutdown
    shutdownFrom,  \* lifecycle state and goroutine position when Shutdown was called
    shutElapsed,   \* time elapsed on the context given to Shutdown
    exitCode,      \* -1 while the process runs, else its exit status
    reqs,          \* the requests accepted so far, by slot
    checks,        \* the health checks registered with the HealthService
    checkOK        \* the current result of each registered check

vars == <<mainPC, gPC, notified, sigCh, portFree, listening, inShutdown,
          shutdownFrom, shutElapsed, exitCode, reqs, checks, checkOK>>

-----------------------------------------------------------------------------
(* Bounds of the model *)

MaxReq == 2
MaxChecks == 2

(* Program constants *)

httpHandlersTimeout == 14
shutdownTimeout == 30

Signals == {"SIGINT", "SIGTERM"}

OperationalPaths == {"/__health", "/__gtg", "/__build-info"}
Paths == OperationalPaths \cup {"/test"}

-----------------------------------------------------------------------------
(* registerEndpoints: the middleware chain and the routing table.  A       *)
(* handler is the sequence of layers a request enters, outermost first.    *)

Wrap(layer, h) == <<layer>> \o h

servicesRouter == <<"servicesRouter">>

TransactionAwareRequestLoggingHandler(h) == Wrap("logging", h)

HTTPMetricsHandler(h) == Wrap("metrics", h)

TimeoutHandler(h) == Wrap("timeout", h)

(* Variants of the chain: the wrappers applied in the opposite order, and  *)
(* the chain without the timeout wrapper.                                  *)
wrappedLoggingOutermost ==
    TransactionAwareRequestLoggingHandler(HTTPMetricsHandler(TimeoutHandler(servicesRouter)))

wrappedWithoutTimeout ==
    HTTPMetricsHandler(TransactionAwareRequestLoggingHandler(servicesRouter))

wrappedServicesRouter ==
    TimeoutHandler(HTTPMetricsHandler(TransactionAwareRequestLoggingHandler(servicesRouter)))

(* Variant of the routing: the operational endpoints registered behind    *)
(* the wrapped services router.                                            *)
serveMuxAllWrapped(path) ==
    CASE path = "/__health"     -> Wrap("timeout", Wrap("metrics", Wrap("logging", <<"fthealth.Handler">>)))
      [] path = "/__gtg"        -> Wrap("timeout", Wrap("metrics", Wrap("logging", <<"GoodToGoHandler">>)))
      [] path = "/__build-info" -> Wrap("timeout", Wrap("metrics", Wrap("logging", <<"BuildInfoHandler">>)))
      [] OTHER                  -> <<"timeout", "metrics", "logging", "servicesRouter">>

serveMux(path) ==
    CASE path = "/__health"     -> <<"fthealth.Handler">>
      [] path = "/__gtg"        -> <<"GoodToGoHandler">>
      [] path = "/__build-info" -> <<"BuildInfoHandler">>
      [] OTHER                  -> wrappedServicesRouter

-----------------------------------------------------------------------------
(* HealthService: the registered checks are invoked in sequence on every   *)
(* call; GTG fails on the first failing check.                             *)

RECURSIVE GTGFrom(_)
GTGFrom(k) ==
    IF k > Len(checks) THEN TRUE
    ELSE IF ~checkOK[checks[k]] THEN FALSE
    ELSE GTGFrom(k + 1)

GTG == GTGFrom(1)

(* Variant: a good-to-go handler that reads the result the wrong way     *)
(* round.                                                                  *)
GoodToGoInverted == IF GTG THEN 503 ELSE 200

(* status.NewGoodToGoHandler(healthService.GTG) *)
GoodToGoHandler == IF GTG THEN 200 ELSE 503

(* The status the innermost handler of a path writes when it finishes. *)
HandlerStatus(path) ==
    CASE path = "/__health"     -> 200
      [] path = "/__gtg"        -> GoodToGoHandler
      [] path = "/__build-info" -> 200
      [] path = "/test"         -> 200
      [] OTHER                  -> 404

-----------------------------------------------------------------------------
(* Requests *)

Slots == 1..MaxReq

Free == [st |-> "free", path |-> "", entered |-> <<>>, el |-> 0,
         resp |-> 0, inner |-> 0, atStop |-> FALSE]

Running == exitCode = -1

HasTimeout(r) == \E k \in DOMAIN r.entered : r.entered[k] = "timeout"

(* The time a client has been waiting is tracked for the requests routed   *)
(* to "/", the services router; it stops counting one unit past the        *)
(* handler budget.                                                         *)
Timed(r) == r.st = "active" /\ r.path \notin OperationalPaths

AllIdle == \A i \in Slots : reqs[i].st # "active"

(* os.Exit, or main returning: the process and all its goroutines end. *)
Exit(code) ==
    /\ exitCode' = code
    /\ listening' = FALSE
    /\ reqs' = [i \in Slots |->
                  IF reqs[i].st = "active"
                  THEN [reqs[i] EXCEPT !.st = "aborted"]
                  ELSE reqs[i]]

Lifecycle ==
    IF exitCode # -1 \/ mainPC = "return" THEN "Stopped"
    ELSE IF inShutdown THEN "ShuttingDown"
    ELSE IF listening THEN "Listening"
    ELSE "Created"

(* The accept loop of ListenAndServe hands the request to serveMux. *)
Accept(p) ==
    /\ Running
    /\ listening
    /\ \E i \in Slots :
         /\ reqs[i].st = "free"
         /\ \A j \in Slots : j < i => reqs[j].st # "free"
         /\ reqs' = [reqs EXCEPT ![i] =
                       [st |-> "active", path |-> p, entered |-> serveMux(p),
                        el |-> 0, resp |-> 0, inner |-> 0, atStop |-> FALSE]]
    /\ UNCHANGED <<mainPC, gPC, notified, sigCh, portFree, listening,
                   inShutdown, shutdownFrom, shutElapsed, exitCode, checks, checkOK>>

(* The innermost handler of request i finishes while the client is still   *)
(* waiting: its response is delivered.                                     *)
Serve(i) ==
    /\ Running
    /\ reqs[i].st = "active"
    /\ HasTimeout(reqs[i]) => reqs[i].el < httpHandlersTimeout
    /\ reqs' = [reqs EXCEPT ![i].st = "responded",
                            ![i].el = 0,
                            ![i].resp = HandlerStatus(reqs[i].path),
                            ![i].inner = HandlerStatus(reqs[i].path)]
    /\ UNCHANGED <<mainPC, gPC, notified, sigCh, portFree, listening,
                   inShutdown, shutdownFrom, shutElapsed, exitCode, checks, checkOK>>

(* http.TimeoutHandler: the budget of request i is spent; the client gets  *)
(* 503 and the handler goroutine is left running behind.                   *)
Timeout(i) ==
    /\ Running
    /\ reqs[i].st = "active"
    /\ HasTimeout(reqs[i])
    /\ reqs[i].el >= httpHandlersTimeout
    /\ reqs' = [reqs EXCEPT ![i].st = "responded", ![i].resp = 503]
    /\ UNCHANGED <<mainPC, gPC, notified, sigCh, portFree, listening,
                   inShutdown, shutdownFrom, shutElapsed, exitCode, checks, checkOK>>

(* The handler left behind by a timeout finishes; what it writes is        *)
(* discarded by the timeout writer.                                        *)
LateDone(i) ==
    /\ Running
    /\ reqs[i].st = "responded"
    /\ reqs[i].inner = 0
    /\ reqs' = [reqs EXCEPT ![i].inner = HandlerStatus(reqs[i].path)]
    /\ UNCHANGED <<mainPC, gPC, notified, sigCh, portFree, listening,
                   inShutdown, shutdownFrom, shutElapsed, exitCode, checks, checkOK>>

(* A health check changes its result. *)
FlipCheck(c) ==
    /\ Running
    /\ c \in DOMAIN checkOK
    /\ checkOK' = [checkOK EXCEPT ![c] = ~checkOK[c]]
    /\ UNCHANGED <<mainPC, gPC, notified, sigCh, portFree, listening,
                   inShutdown, shutdownFrom, shutElapsed, exitCode, reqs, checks>>

-----------------------------------------------------------------------------
(* The main flow of the app action *)

(* server := newHTTPServer(port, router); go startHTTPServer(server, log) *)
Spawn ==
    /\ Running
    /\ mainPC = "start"
    /\ mainPC' = "notify"
    /\ gPC' = "ready"
    /\ UNCHANGED <<notified, sigCh, portFree, listening, inShutdown,
                   shutdownFrom, shutElapsed, exitCode, reqs, checks, checkOK>>

(* waitForSignal: ch := make(chan os.Signal, 1); signal.Notify(ch, ...) *)
Notify ==
    /\ Running
    /\ mainPC = "notify"
    /\ mainPC' = "wait"
    /\ notified' = TRUE
    /\ UNCHANGED <<gPC, sigCh, portFree, listening, inShutdown,
                   shutdownFrom, shutElapsed, exitCode, reqs, checks, checkOK>>

(* waitForSignal: <-ch *)
Receive ==
    /\ Running
    /\ mainPC = "wait"
    /\ sigCh > 0
    /\ sigCh' = sigCh - 1
    /\ mainPC' = "stop"
    /\ UNCHANGED <<gPC, notified, portFree, listening, inShutdown,
                   shutdownFrom, shutElapsed, exitCode, reqs, checks, checkOK>>

(* stopHTTPServer: the context with its deadline is created and            *)
(* server.Shutdown(ctx) sets inShutdown and closes the listener.           *)
ShutdownBegin ==
    /\ Running
    /\ mainPC = "stop"
    /\ mainPC' = "drain"
    /\ inShutdown' = TRUE
    /\ listening' = FALSE
    /\ shutdownFrom' = [state |-> Lifecycle, g |-> gPC]
    /\ shutElapsed' = 0
    /\ reqs' = [i \in Slots |->
                  IF reqs[i].st = "active"
                  THEN [reqs[i] EXCEPT !.atStop = TRUE]
                  ELSE reqs[i]]
    /\ UNCHANGED <<gPC, notified, sigCh, portFree, exitCode, checks, checkOK>>

(* Variant: the server is closed without waiting for the connections. *)
ShutdownNoWait ==
    /\ Running
    /\ mainPC = "drain"
    /\ mainPC' = "return"
    /\ UNCHANGED <<gPC, notified, sigCh, portFree, listening, inShutdown,
                   shutdownFrom, shutElapsed, exitCode, reqs, checks, checkOK>>

(* server.Shutdown finds every connection idle before the deadline and     *)
(* returns nil.                                                            *)
ShutdownOK ==
    /\ Running
    /\ mainPC = "drain"
    /\ AllIdle
    /\ shutElapsed < shutdownTimeout
    /\ mainPC' = "return"
    /\ UNCHANGED <<gPC, notified, sigCh, portFree, listening, inShutdown,
                   shutdownFrom, shutElapsed, exitCode, reqs, checks, checkOK>>

(* The context expires first: server.Shutdown returns its error. *)
ShutdownExpire ==
    /\ Running
    /\ mainPC = "drain"
    /\ shutElapsed >= shutdownTimeout
    /\ mainPC' = "fatal"
    /\ UNCHANGED <<gPC, notified, sigCh, portFree, listening, inShutdown,
                   shutdownFrom, shutElapsed, exitCode, reqs, checks, checkOK>>

(* Variant: the shutdown error is logged without ending the process, and  *)
(* the main flow returns.                                                  *)
MainErrorReturns ==
    /\ Running
    /\ mainPC = "fatal"
    /\ mainPC' = "exited"
    /\ Exit(0)
    /\ UNCHANGED <<gPC, notified, sigCh, portFree, inShutdown,
                   shutdownFrom, shutElapsed, checks, checkOK>>

(* stopHTTPServer: log.Fatalf("failed to gracefully shutdown the server") *)
MainFatal ==
    /\ Running
    /\ mainPC = "fatal"
    /\ mainPC' = "exited"
    /\ Exit(1)
    /\ UNCHANGED <<gPC, notified, sigCh, portFree, inShutdown,
                   shutdownFrom, shutElapsed, checks, checkOK>>

(* stopHTTPServer returns, the action returns, app.Run returns nil and     *)
(* main returns.                                                           *)
MainReturn ==
    /\ Running
    /\ mainPC = "return"
    /\ mainPC' = "exited"
    /\ Exit(0)
    /\ UNCHANGED <<gPC, notified, sigCh, portFree, inShutdown,
                   shutdownFrom, shutElapsed, checks, checkOK>>

-----------------------------------------------------------------------------
(* The goroutine running startHTTPServer *)

(* Variant: ListenAndServe binds the port whether or not Shutdown was      *)
(* called.                                                                 *)
ListenAndServeUnchecked ==
    /\ Running
    /\ gPC = "ready"
    /\ IF portFree
         THEN gPC' = "serving" /\ listening' = TRUE
       ELSE gPC' = "failed" /\ UNCHANGED listening
    /\ UNCHANGED <<mainPC, notified, sigCh, portFree, inShutdown,
                   shutdownFrom, shutElapsed, exitCode, reqs, checks, checkOK>>

(* server.ListenAndServe() is entered: it gives up with ErrServerClosed    *)
(* when Shutdown was already called, else it binds the port.               *)
ListenAndServe ==
    /\ Running
    /\ gPC = "ready"
    /\ IF inShutdown
         THEN gPC' = "returned" /\ UNCHANGED listening
       ELSE IF portFree
         THEN gPC' = "serving" /\ listening' = TRUE
       ELSE gPC' = "failed" /\ UNCHANGED listening
    /\ UNCHANGED <<mainPC, notified, sigCh, portFree, inShutdown,
                   shutdownFrom, shutElapsed, exitCode, reqs, checks, checkOK>>

(* The accept loop ends with ErrServerClosed once Shutdown has closed the  *)
(* listener; startHTTPServer returns without logging.                      *)
ServeClosed ==
    /\ Running
    /\ gPC = "serving"
    /\ inShutdown
    /\ gPC' = "returned"
    /\ UNCHANGED <<mainPC, notified, sigCh, portFree, listening, inShutdown,
                   shutdownFrom, shutElapsed, exitCode, reqs, checks, checkOK>>

(* startHTTPServer: log.Fatalf("http server failed to start") *)
StartFatal ==
    /\ Running
    /\ gPC = "failed"
    /\ gPC' = "exited"
    /\ Exit(1)
    /\ UNCHANGED <<mainPC, notified, sigCh, portFree, inShutdown,
                   shutdownFrom, shutElapsed, checks, checkOK>>

-----------------------------------------------------------------------------
(* The environment *)

(* Variant: the notification is stopped once a signal was received, so a  *)
(* later signal ends the process.                                          *)
SignalEndsDrain(s) ==
    /\ Running
    /\ IF ~notified \/ mainPC \notin {"notify", "wait"}
         THEN Exit(2) /\ UNCHANGED sigCh
       ELSE /\ s \in Signals
            /\ sigCh' = IF sigCh < 1 THEN sigCh + 1 ELSE sigCh
            /\ UNCHANGED <<exitCode, listening, reqs>>
    /\ UNCHANGED <<mainPC, gPC, notified, portFree, inShutdown,
                   shutdownFrom, shutElapsed, checks, checkOK>>

(* The process is sent SIGINT or SIGTERM.  Before signal.Notify the Go     *)
(* runtime ends the process; afterwards the signal is put in ch, or        *)
(* dropped when ch is full.                                                *)
Signal(s) ==
    /\ Running
    /\ IF ~notified
         THEN Exit(2) /\ UNCHANGED sigCh
       ELSE /\ s \in Signals
            /\ sigCh' = IF sigCh < 1 THEN sigCh + 1 ELSE sigCh
            /\ UNCHANGED <<exitCode, listening, reqs>>
    /\ UNCHANGED <<mainPC, gPC, notified, portFree, inShutdown,
                   shutdownFrom, shutElapsed, checks, checkOK>>

(* One unit of time passes.  No timer that is due is passed over: the      *)
(* timeout handler's timer, the deadline of the shutdown context, and the  *)
(* poll of Shutdown for idle connections all fire before time moves on.    *)
Tick ==
    /\ Running
    /\ \/ \E i \in Slots : Timed(reqs[i])
       \/ mainPC = "drain"
    /\ \A i \in Slots : reqs[i].st = "active" /\ HasTimeout(reqs[i])
                          => reqs[i].el < httpHandlersTimeout
    /\ mainPC = "drain" => shutElapsed < shutdownTimeout /\ ~AllIdle
    /\ reqs' = [i \in Slots |->
                  IF Timed(reqs[i]) /\ reqs[i].el <= httpHandlersTimeout
                  THEN [reqs[i] EXCEPT !.el = @ + 1]
                  ELSE reqs[i]]
    /\ shutElapsed' = IF mainPC = "drain" THEN shutElapsed + 1 ELSE shutElapsed
    /\ UNCHANGED <<mainPC, gPC, notified, sigCh, portFree, listening,
                   inShutdown, shutdownFrom, exitCode, checks, checkOK>>

-----------------------------------------------------------------------------
(* The lifecycle is explored with every registered check passing; the      *)
(* results of the checks vary under SpecHealth below.                      *)

Init ==
    /\ mainPC = "start"
    /\ gPC = "none"
    /\ notified = FALSE
    /\ sigCh = 0
    /\ portFree \in BOOLEAN
    /\ listening = FALSE
    /\ inShutdown = FALSE
    /\ shutdownFrom = [state |-> "none", g |-> "none"]
    /\ shutElapsed = 0
    /\ exitCode = -1
    /\ reqs = [i \in Slots |-> Free]
    /\ checks = [k \in 1..MaxChecks |-> k]
    /\ checkOK = [k \in 1..MaxChecks |-> TRUE]

Next ==
    \/ Spawn
    \/ Notify
    \/ Receive
    \/ ShutdownBegin
    \/ ShutdownOK
    \/ ShutdownExpire
    \/ MainFatal
    \/ MainReturn
    \/ ListenAndServe
    \/ ServeClosed
    \/ StartFatal
    \/ \E s \in Signals : Signal(s)
    \/ \E p \in Paths : Accept(p)
    \/ \E i \in Slots : Serve(i)
    \/ \E i \in Slots : Timeout(i)
    \/ \E i \in Slots : LateDone(i)
    \/ Tick

Spec == Init /\ [][Next]_vars

-----------------------------------------------------------------------------
(* The health endpoints of a listening server: the checks registered with  *)
(* the HealthService change their results while the good-to-go path is     *)
(* called.                                                                 *)

InitHealth ==
    /\ mainPC = "wait"
    /\ gPC = "serving"
    /\ notified = TRUE
    /\ sigCh = 0
    /\ portFree = TRUE
    /\ listening = TRUE
    /\ inShutdown = FALSE
    /\ shutdownFrom = [state |-> "none", g |-> "none"]
    /\ shutElapsed = 0
    /\ exitCode = -1
    /\ reqs = [i \in Slots |-> Free]
    /\ \E n \in 0..MaxChecks :
         /\ checks = [k \in 1..n |-> k]
         /\ checkOK \in [1..n -> BOOLEAN]

NextHealth ==
    \/ \E c \in 1..MaxChecks : FlipCheck(c)
    \/ \E p \in {"/__health", "/__gtg"} : Accept(p)
    \/ \E i \in Slots : Serve(i)

SpecHealth == InitHealth /\ [][NextHealth]_vars

-----------------------------------------------------------------------------
(* Properties *)

Business(r) == r.st # "free" /\ r.path \notin OperationalPaths
Operational(r) == r.st # "free" /\ r.path \in OperationalPaths

Pos(layer, h) == CHOOSE k \in DOMAIN h : h[k] = layer

(* What a layer sees as the response of the request: a layer around the    *)
(* timeout layer sees what the client gets, a layer inside it sees what    *)
(* the services router wrote (0: nothing yet).                             *)
Observed(layer, r) ==
    IF Pos(layer, r.entered) < Pos("timeout", r.entered) THEN r.resp ELSE r.inner

Rank(state) ==
    CASE state = "Created"      -> 0
      [] state = "Listening"    -> 1
      [] state = "ShuttingDown" -> 2
      [] state = "Stopped"      -> 3

(* C1: server.Shutdown is never called while the server is still Created,  *)
(* that is before the listener was started.                                *)
ShutdownOnlyAfterListening == shutdownFrom.state # "Created"

(* C2: a request to an operational path enters its handler directly, never *)
(* the logging, metrics or timeout layer; while the process runs it can    *)
(* always complete, whatever the business requests do, and when it has     *)
(* completed the client has the handler's own status.                      *)
OperationalBypass ==
    \A i \in Slots :
      Operational(reqs[i]) =>
        /\ Len(reqs[i].entered) = 1
        /\ \A k \in DOMAIN reqs[i].entered :
             reqs[i].entered[k] \notin {"logging", "metrics", "timeout"}
        /\ reqs[i].el = 0
        /\ (reqs[i].st = "active" /\ Running) => ENABLED Serve(i)
        /\ reqs[i].st = "responded" => reqs[i].resp = HandlerStatus(reqs[i].path)

C2Witness ==
    \E i, j \in Slots :
      /\ i < j
      /\ reqs[i].path = "/test" /\ reqs[i].st = "active" /\ reqs[i].el > 0
      /\ Operational(reqs[j]) /\ reqs[j].st = "responded" /\ reqs[j].resp = 200
      /\ Lifecycle = "Listening"

(* C3 as stated: a business request enters logging first, then metrics,    *)
(* then timeout, and the logging layer sees the response the client gets.  *)
LoggingOutermost ==
    \A i \in Slots :
      Business(reqs[i]) =>
        /\ reqs[i].entered = <<"logging", "metrics", "timeout", "servicesRouter">>
        /\ Observed("logging", reqs[i]) = reqs[i].resp
        /\ Observed("metrics", reqs[i]) = reqs[i].resp

(* C3 as amended: a business request enters timeout first, then metrics,   *)
(* then logging, then the services router; logging and metrics see what    *)
(* the services router wrote and never the 503 of a timeout.               *)
TimeoutOutermost ==
    \A i \in Slots :
      Business(reqs[i]) =>
        /\ reqs[i].entered = <<"timeout", "metrics", "logging", "servicesRouter">>
        /\ \A layer \in {"logging", "metrics"} :
             /\ Observed(layer, reqs[i]) = reqs[i].inner
             /\ Observed(layer, reqs[i]) # 503

C3Witness ==
    \E i \in Slots :
      /\ Business(reqs[i])
      /\ reqs[i].st = "responded" /\ reqs[i].resp = 503
      /\ Observed("logging", reqs[i]) = 200

(* C4: the client of a business request never waits longer than            *)
(* httpHandlersTimeout; a request answered when the budget is spent is     *)
(* answered 503, with the process still running and the listener and the   *)
(* other requests untouched; a request answered earlier gets the status    *)
(* its handler wrote.                                                      *)
HandlerTimeoutBound ==
    [][\A i \in Slots :
         /\ (reqs'[i].st = "active" /\ reqs'[i].path \notin OperationalPaths)
              => reqs'[i].el <= httpHandlersTimeout
         /\ (Timed(reqs[i]) /\ reqs'[i].st = "responded") =>
              IF reqs[i].el >= httpHandlersTimeout
              THEN /\ reqs'[i].resp = 503
                   /\ reqs'[i].el = httpHandlersTimeout
                   /\ exitCode' = -1
                   /\ listening' = listening
                   /\ \A j \in Slots : j # i => reqs'[j] = reqs[j]
              ELSE reqs'[i].resp = HandlerStatus(reqs[i].path)
      ]_vars

C4Witness ==
    \E i, j \in Slots :
      /\ i < j
      /\ reqs[i].path = "/test" /\ reqs[i].st = "responded"
      /\ reqs[i].resp = 503 /\ reqs[i].el = httpHandlersTimeout
      /\ reqs[j].path = "/test" /\ reqs[j].st = "responded" /\ reqs[j].resp = 200
      /\ Running /\ listening

(* C5: after Shutdown was called on a listening server the listener stays  *)
(* closed and no request is accepted; a request in flight at that moment   *)
(* that is answered gets its normal response (its handler's status, or the *)
(* 503 of the timeout layer), and is cut off only by the fatal exit at the *)
(* end of the grace period; a process that ends before the grace period    *)
(* has elapsed ends with exit code 0.                                      *)
GracefulDrain ==
    shutdownFrom.state = "Listening" =>
      /\ ~listening
      /\ \A i \in Slots :
           /\ reqs[i].st = "active" => reqs[i].atStop
           /\ (reqs[i].atStop /\ reqs[i].st = "responded") =>
                \/ reqs[i].resp = HandlerStatus(reqs[i].path)
                \/ HasTimeout(reqs[i]) /\ reqs[i].resp = 503
                     /\ reqs[i].el = httpHandlersTimeout
           /\ reqs[i].st = "aborted" =>
                exitCode = 1 /\ shutElapsed >= shutdownTimeout
      /\ (exitCode # -1 /\ shutElapsed < shutdownTimeout) => exitCode = 0

C5Witness ==
    /\ shutdownFrom.state = "Listening"
    /\ exitCode = 0
    /\ shutElapsed > 0
    /\ \E i \in Slots :
         reqs[i].atStop /\ reqs[i].st = "responded" /\ reqs[i].resp = 200

(* C6: when the grace period has elapsed during the drain, Shutdown does   *)
(* not return nil, the process never ends with exit code 0, it ends with   *)
(* exit code 1 and no connection left open, and the drain never lasts      *)
(* longer than the grace period.                                           *)
GraceExpiry ==
    /\ shutElapsed <= shutdownTimeout
    /\ shutElapsed >= shutdownTimeout =>
         /\ mainPC \in {"drain", "fatal", "exited"}
         /\ exitCode \in {-1, 1}
         /\ mainPC = "drain" => ENABLED ShutdownExpire /\ ~ENABLED Tick
         /\ mainPC = "fatal" => ENABLED MainFatal /\ ~ENABLED Tick
         /\ mainPC = "exited" => exitCode = 1 /\ AllIdle

C6Witness ==
    /\ exitCode = 1
    /\ mainPC = "exited"
    /\ shutElapsed = shutdownTimeout
    /\ \E i \in Slots : reqs[i].atStop /\ reqs[i].st = "aborted"

(* C7: once binding the port has failed, the process does not end with     *)
(* exit code 0.                                                            *)
BindFailureExitsNonZero ==
    gPC \in {"failed", "exited"} => exitCode # 0

(* C8: the good-to-go path answers 200 exactly when every registered check *)
(* passes at the time of the call, and 503 otherwise, whatever earlier     *)
(* calls answered.                                                         *)
GTGIffAllPass ==
    [][\A i \in Slots :
         (reqs[i].st = "active" /\ reqs[i].path = "/__gtg"
            /\ reqs'[i].st = "responded") =>
           /\ reqs'[i].resp \in {200, 503}
           /\ reqs'[i].resp = 200 <=> \A k \in DOMAIN checks : checkOK[checks[k]]
      ]_vars

C8Witness ==
    /\ Len(checks) = MaxChecks
    /\ reqs[1].path = "/__gtg" /\ reqs[1].st = "responded" /\ reqs[1].resp = 503
    /\ reqs[2].path = "/__gtg" /\ reqs[2].st = "responded" /\ reqs[2].resp = 200

(* C9: the lifecycle state never moves backwards; one signal in ch lets    *)
(* the main flow leave its wait; once Shutdown was called the server stays *)
(* in shutdown with its listener closed, the record of the call and the    *)
(* elapsed grace time are never reset, and while requests are in flight    *)
(* and the grace period has not elapsed the drain goes on and the process  *)
(* does not end.                                                           *)
LifecycleForward ==
    [][/\ Rank(Lifecycle') >= Rank(Lifecycle)
       /\ (mainPC = "wait" /\ sigCh >= 1) => ENABLED Receive
       /\ inShutdown =>
            /\ inShutdown'
            /\ ~listening'
            /\ shutdownFrom' = shutdownFrom
            /\ shutElapsed' >= shutElapsed
       /\ (mainPC = "drain" /\ ~AllIdle /\ shutElapsed < shutdownTimeout) =>
            mainPC' = "drain" /\ exitCode' = -1
      ]_vars

C9Witness ==
    /\ mainPC = "drain"
    /\ sigCh = 1
    /\ shutElapsed > 0
    /\ ~AllIdle

(* C10: when Shutdown was called before the goroutine entered              *)
(* ListenAndServe, the goroutine never fails fatally, the port is never    *)
(* bound, no request is ever accepted, and the process ends, if it ends,   *)
(* with exit code 0.                                                       *)
ShutdownBeforeListen ==
    (shutdownFrom.state = "Created" /\ shutdownFrom.g = "ready") =>
      /\ gPC \in {"ready", "returned"}
      /\ ~listening
      /\ \A i \in Slots : reqs[i].st = "free"
      /\ exitCode \in {-1, 0}

C10Witness ==
    /\ shutdownFrom.state = "Created" /\ shutdownFrom.g = "ready"
    /\ gPC = "returned"
    /\ exitCode = 0

====
